---- MODULE Spec2Model ----
(***************************************************************************)
(* PCA / k-means change detection (src/src/kmeans.py).                     *)
(*                                                                         *)
(* find_PCAKmeans is modelled stage by stage: every statement group of the *)
(* function is one action, and pc names the statement the call has reached.*)
(* Arrays are functions over 1..n (a 2-D array is a sequence of rows).     *)
(* Floating point arrays (vector_set, mean_vec, FVS) hold exact rationals  *)
(* in units of 1/Scale; the component matrix EVS is in units of 1/EvsDen.  *)
(*                                                                         *)
(* The three library routines are modelled by their contracts:             *)
(*   PCA().fit     any orthonormal basis that diagonalises the covariance  *)
(*                 of the data with descending variance (drawn from a      *)
(*                 finite family of exact bases),                          *)
(*   KMeans        three centres drawn from the data, every vector         *)
(*                 labelled with the index of its nearest centre,          *)
(*   cv2.erode     minimum under the structuring element, the border       *)
(*                 handled as OpenCV's default border value does.          *)
(***************************************************************************)
EXTENDS Integers, Sequences, FiniteSets, TLC

\* Largest image side S that is enumerated.
MaxSide == 27
\* Largest reduced side handed to clustering() when it is checked on its own.
MaxNew == 6

\* Block and neighbourhood side (kmeans.py: the 5 of lines 21, 24, 25, 73, 74).
BlockSize == 5
\* components = 3
Components == 3
\* Foreground value of the change map.
Foreground == 255
\* The two pixel values of the enumerated images: the value of the first
\* image and the value of a brightened pixel of the second (+50).
Levels == <<100, 150>>
BaseValue == Levels[1]
BrightValue == Levels[2]

\* Floats are exact multiples of 1/Scale: every mean over 1, 4, 9, 16, 25 or
\* 36 block vectors of integer pixels is.
Scale == 60 * 60
\* The entries of a component matrix are multiples of 1/EvsDen.
EvsDen == 4 * BlockSize
VecLen == BlockSize * BlockSize

VARIABLES pc, old_size, image_pre, image_post, new_size, diff_image,
          vector_set, mean_vec, EVS, FVS, output, least_index, change_map,
          cleanChangeMap, x, error

vars == <<pc, old_size, image_pre, image_post, new_size, diff_image,
          vector_set, mean_vec, EVS, FVS, output, least_index, change_map,
          cleanChangeMap, x, error>>

----------------------------------------------------------------------------
\* Arithmetic and array helpers.

Abs(a) == IF a < 0 THEN -a ELSE a

Min2(a, b) == IF a < b THEN a ELSE b

RECURSIVE SumRange(_, _, _)
\* f[lo] + ... + f[hi], by halves to keep the evaluation shallow.
SumRange(f, lo, hi) ==
    IF lo > hi THEN 0
    ELSE IF lo = hi THEN f[lo]
    ELSE SumRange(f, lo, (lo + hi) \div 2) + SumRange(f, ((lo + hi) \div 2) + 1, hi)

\* f[1] + ... + f[n]
SumTo(f, n) == SumRange(f, 1, n)

RECURSIVE Gcd(_, _)
Gcd(a, b) == IF b = 0 THEN Abs(a) ELSE Gcd(Abs(b), Abs(a) % Abs(b))

RECURSIVE GcdRange(_, _, _)
GcdRange(f, lo, hi) ==
    IF lo > hi THEN 0
    ELSE IF lo = hi THEN Abs(f[lo])
    ELSE Gcd(GcdRange(f, lo, (lo + hi) \div 2), GcdRange(f, ((lo + hi) \div 2) + 1, hi))

\* gcd(f[1], ..., f[n]); 0 when all are 0.
GcdTo(f, n) == GcdRange(f, 1, n)

\* The largest unit every entry of a[n] - a[1] is a multiple of (1 when the
\* rows of a are all equal).  Comparisons of products and of distances do not
\* depend on the unit, and are taken in this one to stay within 32 bits.
CommonUnit(a) ==
    LET g == GcdTo([n \in 1..Len(a) |->
                       GcdTo([k \in 1..Len(a[n]) |-> a[n][k] - a[1][k]],
                             Len(a[n]))], Len(a))
    IN  IF g = 0 THEN 1 ELSE g

\* The sequence f with every element evaluated: an array held in memory.
\* (The value is f itself; TLC evaluates f \o <<>> to a tuple once, where it
\* would evaluate a function constructor again at every application.)
AsArray(f) == f \o <<>>

\* np.zeros / a constant n x n array.
Uniform(n, v) == [r \in 1..n |-> [c \in 1..n |-> v]]

\* a[r0:r0+5, c0:c0+5].ravel() with 0-based r0, c0: row-major flattening.
Ravel(a, r0, c0) ==
    AsArray([m \in 1..VecLen |->
        a[r0 + ((m - 1) \div BlockSize) + 1][c0 + ((m - 1) % BlockSize) + 1]])

----------------------------------------------------------------------------
\* The images a call is given.  Both are S x S, single band, uint8.  A side
\* that is a multiple of 5 is not resampled, so the second image may differ
\* from the first in whole 5x5 blocks and in one pixel of the last block.
\* Any other side is resampled by PIL, which is modelled only where the
\* result does not depend on the filter: on images of one value.

\* Blocks (1-based block row, block column) brightened in the second image.
BlockSets(nb) ==
    { {},
      { <<(nb \div 2) + 1, (nb \div 2) + 1>> },
      { <<1, 1>> } }
    \cup (IF nb >= 4 THEN { {<<2, 2>>, <<2, 3>>, <<3, 2>>, <<3, 3>>} } ELSE {})

\* Offset (1..25, row-major) of a single brightened pixel of the last block;
\* 0 for none.
PixelOffsets == {0, 13}

Scenes(nb) ==
    { sc \in [blocks : BlockSets(nb), pixel : PixelOffsets] :
        sc.pixel # 0 => <<nb, nb>> \notin sc.blocks }

Brightened(sc, nb, r, c) ==
    \/ <<((r - 1) \div BlockSize) + 1, ((c - 1) \div BlockSize) + 1>> \in sc.blocks
    \/ /\ sc.pixel # 0
       /\ r = (nb - 1) * BlockSize + ((sc.pixel - 1) \div BlockSize) + 1
       /\ c = (nb - 1) * BlockSize + ((sc.pixel - 1) % BlockSize) + 1

PostImage(S, sc) ==
    [r \in 1..S |-> [c \in 1..S |->
        IF Brightened(sc, S \div BlockSize, r, c)
        THEN BrightValue ELSE BaseValue]]

ImagePairs(S) ==
    IF S % BlockSize = 0
    THEN { [pre |-> Uniform(S, BaseValue), post |-> PostImage(S, sc)] :
             sc \in Scenes(S \div BlockSize) }
    ELSE { [pre |-> Uniform(S, BaseValue), post |-> Uniform(S, b)] :
             b \in {BaseValue, BrightValue} }

----------------------------------------------------------------------------
\* Resizer and difference (find_PCAKmeans, lines 71-80).

\* new_size = (shape / 5).astype(int) * 5
NewSize(S) == (S \div BlockSize) * BlockSize

\* Image.resize to n x n: the source pixel under the centre of each target
\* pixel.  The identity when the side is unchanged and exact for an image of
\* one value under every PIL filter.
ResizeImage(img, n) ==
    LET old == Len(img)
        Src(i) == (((2 * i - 1) * old) \div (2 * n)) + 1
    IN  [r \in 1..n |-> [c \in 1..n |-> img[Src(r)][Src(c)]]]

\* abs(image_pre - image_post) on int16
DiffImage(pre, post) ==
    [r \in 1..Len(pre) |-> [c \in 1..Len(pre) |-> Abs(pre[r][c] - post[r][c])]]

----------------------------------------------------------------------------
\* find_vector_set (lines 11-31).  i, j, k are the 0-based loop counters of
\* the code; j is initialised once, before the outer loop.

RECURSIVE LoopK(_, _, _, _, _, _)
\* while k < new_size[1]: vector_set[i, :] = block.ravel(); k = k + 5
LoopK(vs, diff, new, i, j, k) ==
    IF k < new
    THEN LoopK([vs EXCEPT ![i + 1] = Ravel(diff, j, k)], diff, new, i, j,
               k + BlockSize)
    ELSE vs

RECURSIVE LoopJ(_, _, _, _, _)
\* while j < new_size[0]: k = 0; <inner loop>; j = j + 5.  Returns the
\* array and the value j is left with.
LoopJ(vs, diff, new, i, j) ==
    IF j < new
    THEN LoopJ(LoopK(vs, diff, new, i, j, 0), diff, new, i, j + BlockSize)
    ELSE <<vs, j>>

RECURSIVE LoopI(_, _, _, _, _)
\* while i < vector_set.shape[0]: <middle loop>; i = i + 1
LoopI(vs, diff, new, i, j) ==
    IF i < Len(vs)
    THEN LET r == LoopJ(vs, diff, new, i, j)
         IN  LoopI(r[1], diff, new, i + 1, r[2])
    ELSE vs

\* The array the loops leave, before the mean is taken (integer pixels).
FilledVectorSet(diff, new) ==
    LoopI(AsArray([r \in 1..((new * new) \div VecLen) |->
                      AsArray([m \in 1..VecLen |-> 0])]),
          diff, new, 0, 0)

\* mean_vec = np.mean(vector_set, axis=0), in units of 1/Scale.
MeanVec(vs) ==
    AsArray([m \in 1..VecLen |->
        (SumTo([r \in 1..Len(vs) |-> vs[r][m]], Len(vs)) * Scale) \div Len(vs)])

\* vector_set - mean_vec, in units of 1/Scale.
FindVectorSet(diff, new) ==
    LET vs == FilledVectorSet(diff, new)
        mv == MeanVec(vs)
    IN  [vector_set |-> [r \in 1..Len(vs) |->
                            [m \in 1..VecLen |-> vs[r][m] * Scale - mv[m]]],
         mean_vec |-> mv]

----------------------------------------------------------------------------
\* PCA().fit(vector_set); EVS = pca.components_ (lines 84-87).

Dot(a, b) == SumTo([m \in 1..Len(a) |-> a[m] * b[m]], Len(a))

\* The permutation basis whose k-th component is the unit vector of
\* coordinate ((k - 1 + s) mod 25) + 1.
ShiftBasis(s) ==
    AsArray([k \in 1..VecLen |-> AsArray([m \in 1..VecLen |->
        IF m = ((k - 1 + s) % VecLen) + 1 THEN EvsDen ELSE 0])])

\* The Householder reflection that maps the first unit vector to the
\* normalised all-ones vector: I - a a^T / 20 with a = (4, -1, ..., -1).
HouseholderBasis ==
    LET a(k) == IF k = 1 THEN 4 ELSE -1
    IN  AsArray([k \in 1..VecLen |-> AsArray([m \in 1..VecLen |->
            (IF k = m THEN EvsDen ELSE 0) - a(k) * a(m)])])

CandidateBases ==
    { ShiftBasis(0), ShiftBasis(12), HouseholderBasis }

\* The contract of the PCA solver on data X: the coordinates of the centred
\* data along different components are uncorrelated and the variance along
\* the components does not increase.  (PCA.fit centres the data itself.)
IsPrincipalBasis(b, X) ==
    LET u == CommonUnit(X)
        D == AsArray([r \in 1..Len(X) |-> AsArray([m \in 1..VecLen |->
                 (X[r][m] - X[1][m]) \div u])])
        S == AsArray([m \in 1..VecLen |->
                 SumTo([r \in 1..Len(X) |-> D[r][m]], Len(X))])
        \* Len(X) times the centred data, in units of u.
        C == AsArray([r \in 1..Len(X) |-> AsArray([m \in 1..VecLen |->
                 Len(X) * D[r][m] - S[m]])])
        P == AsArray([r \in 1..Len(X) |-> AsArray([k \in 1..VecLen |->
                 Dot(C[r], b[k])])])
        Cov(k, l) == SumTo([r \in 1..Len(X) |-> P[r][k] * P[r][l]], Len(X))
    IN  /\ \A k \in 1..VecLen : \A l \in (k + 1)..VecLen : Cov(k, l) = 0
        /\ \A k \in 1..(VecLen - 1) : Cov(k, k) >= Cov(k + 1, k + 1)

\* pca.components_: n_components = min(n_samples, n_features) rows.
PCAComponents(X) ==
    { SubSeq(b, 1, Min2(Len(X), VecLen)) :
        b \in { c \in CandidateBases : IsPrincipalBasis(c, X) } }

----------------------------------------------------------------------------
\* find_FVS (lines 34-52).

\* The flattened 5x5 neighbourhoods of the interior pixels, row-major:
\* entry (i - 2) * (new - 4) + (j - 2) + 1 is diff[i-2:i+3, j-2:j+3] for the
\* 0-based pixel (i, j), 2 <= i, j < new - 2.
Neighbourhoods(diff, new) ==
    LET w == new - 4
    IN  [n \in 1..(w * w) |-> Ravel(diff, (n - 1) \div w, (n - 1) % w)]

\* np.dot(a, b) is defined when the columns of a are as many as the rows of b.
DotDefined(a, b) == Len(a) > 0 /\ Len(b) > 0 /\ Len(a[1]) = Len(b)

\* np.dot(a, b)[n][k] = sum over m of a[n][m] * b[m][k]
MatMul(a, b) ==
    [n \in 1..Len(a) |->
        LET row == a[n]
        IN  [k \in 1..Len(b[1]) |->
                SumTo([m \in 1..Len(b) |-> row[m] * b[m][k]], Len(b))]]

\* FVS = np.dot(feature_vector_set, EVS) - mean_vec, in units of 1/Scale.
FindFVS(evs, diff, mv, new) ==
    LET prod == MatMul(Neighbourhoods(diff, new), evs)
    IN  [n \in 1..Len(prod) |-> [k \in 1..Len(prod[n]) |->
            prod[n][k] * (Scale \div EvsDen) - mv[k]]]

----------------------------------------------------------------------------
\* clustering (lines 55-65).

\* Squared distance of two vectors, in units of u.
Dist2(a, b, u) ==
    SumTo([m \in 1..Len(a) |-> ((a[m] - b[m]) \div u) * ((a[m] - b[m]) \div u)],
          Len(a))

\* Indices of the vectors KMeans may end with as a centre: the first, the
\* middle and the last.
CentreChoices(N) == <<1, (N + 1) \div 2, N>>

\* The squared distance of every vector to every vector that may be a centre.
Distances(fvs) ==
    LET u == CommonUnit(fvs)
        cand == CentreChoices(Len(fvs))
    IN  AsArray([q \in 1..Len(cand) |-> AsArray([n \in 1..Len(fvs) |->
            Dist2(fvs[n], fvs[cand[q]], u)])])

\* kmeans.predict: the index (0-based) of the nearest centre, the lowest
\* index on a tie.  centres[l + 1] names centre l among the choices, and
\* d is Distances(fvs).
Predict(d, centres) ==
    LET Nearest(n) ==
            CHOOSE l \in 0..(Components - 1) :
                /\ \A q \in 0..(Components - 1) :
                       d[centres[l + 1]][n] <= d[centres[q + 1]][n]
                /\ \A q \in 0..(l - 1) :
                       d[centres[q + 1]][n] > d[centres[l + 1]][n]
    IN  AsArray([n \in 1..Len(d[1]) |-> Nearest(n)])

\* KMeans.fit refuses fewer samples than clusters.
FitDefined(fvs) == Len(fvs) >= Components

\* count = Counter(output): the labels in the order of their first
\* occurrence (the order a dict keeps), and the count of a label.
FirstPos(out, l) ==
    CHOOSE n \in 1..Len(out) : out[n] = l /\ \A q \in 1..(n - 1) : out[q] # l

RECURSIVE KeysOf(_, _)
KeysOf(out, labels) ==
    IF labels = {} THEN <<>>
    ELSE LET l == CHOOSE l \in labels :
                      \A q \in labels : FirstPos(out, l) <= FirstPos(out, q)
         IN  <<l>> \o KeysOf(out, labels \ {l})

CounterKeys(out) == KeysOf(out, {out[n] : n \in 1..Len(out)})

CountOf(out, l) == Cardinality({n \in 1..Len(out) : out[n] = l})

RECURSIVE MinByCount(_, _, _, _)
\* min(count, key=count.get): the first key, in iteration order, whose count
\* no later key undercuts.
MinByCount(out, keys, q, best) ==
    IF q > Len(keys) THEN best
    ELSE MinByCount(out, keys, q + 1,
                    IF CountOf(out, keys[q]) < CountOf(out, best)
                    THEN keys[q] ELSE best)

\* A variant that breaks a tie by the smaller label, as an argmin over
\* per-label counts would.
LeastIndexSmallestLabel(out) ==
    CHOOSE l \in {out[n] : n \in 1..Len(out)} :
        \A n \in 1..Len(out) :
            \/ CountOf(out, l) < CountOf(out, out[n])
            \/ CountOf(out, l) = CountOf(out, out[n]) /\ l <= out[n]

LeastIndex(out) ==
    LET keys == CounterKeys(out)
    IN  MinByCount(out, keys, 2, keys[1])

\* np.reshape(output, (new - 4, new - 4))
Reshape(out, w) == [r \in 1..w |-> [c \in 1..w |-> out[(r - 1) * w + c]]]

----------------------------------------------------------------------------
\* Change map, erosion and footprint (find_PCAKmeans, lines 94-109).

\* A variant without the second assignment: the other labels stay.
BuildChangeMapKeepLabels(cm, li) ==
    [r \in 1..Len(cm) |-> [c \in 1..Len(cm) |->
        IF cm[r][c] = li THEN Foreground ELSE cm[r][c]]]

\* change_map[change_map == least_index] = 255; change_map[change_map != 255] = 0
BuildChangeMap(cm, li) ==
    LET marked == [r \in 1..Len(cm) |-> [c \in 1..Len(cm) |->
                      IF cm[r][c] = li THEN Foreground ELSE cm[r][c]]]
    IN  [r \in 1..Len(cm) |-> [c \in 1..Len(cm) |->
            IF marked[r][c] # Foreground THEN 0 ELSE marked[r][c]]]

kernel == << <<0, 0, 1, 0, 0>>,
             <<0, 1, 1, 1, 0>>,
             <<1, 1, 1, 1, 1>>,
             <<0, 1, 1, 1, 0>>,
             <<0, 0, 1, 0, 0>> >>

\* Offsets (row, column) of the cells of the structuring element, relative
\* to its anchor, the centre.
KernelOffsets ==
    { <<dr, dc>> \in (-2..2) \X (-2..2) : kernel[dr + 3][dc + 3] = 1 }

SetMin(S) == CHOOSE v \in S : \A u \in S : v <= u

\* A variant with a border of zeros (borderValue = 0).
ErodeZeroPadded(cm) ==
    LET w == Len(cm)
        At(r, c) == IF r \in 1..w /\ c \in 1..w THEN cm[r][c] ELSE 0
    IN  [r \in 1..w |-> [c \in 1..w |->
            SetMin({ At(r + o[1], c + o[2]) : o \in KernelOffsets })]]

\* cv2.erode(change_map, kernel): the minimum under the element.  The border
\* is BORDER_CONSTANT with morphologyDefaultBorderValue(), which erosion
\* reads as the largest value, so cells outside the grid never lower it.
Erode(cm) ==
    LET w == Len(cm)
        At(r, c) == IF r \in 1..w /\ c \in 1..w THEN cm[r][c] ELSE Foreground
    IN  [r \in 1..w |-> [c \in 1..w |->
            SetMin({ At(r + o[1], c + o[2]) : o \in KernelOffsets })]]

\* border = int((old_size - cleanChangeMap.shape[0]) / 2)
Border(S, w) == (S - w) \div 2

\* x[border:old_size-border, border:old_size-border] = cleanChangeMap is
\* defined when the shapes agree or the value broadcasts from one cell.
AssignDefined(S, w) ==
    \/ S - 2 * Border(S, w) = w
    \/ w = 1

\* x = np.zeros((S, S)); x[border:S-border, border:S-border] = clean
Reconcile(clean, S) ==
    LET w == Len(clean)
        b == Border(S, w)
    IN  [r \in 1..S |-> [c \in 1..S |->
            IF r \in (b + 1)..(S - b) /\ c \in (b + 1)..(S - b)
            THEN IF w = 1 THEN clean[1][1] ELSE clean[r - b][c - b]
            ELSE 0]]

----------------------------------------------------------------------------
\* find_PCAKmeans (lines 69-109) as a state machine.

NoError == [kind |-> "none", stage |-> "none"]

Raise(kind, stage) ==
    /\ pc' = "raised"
    /\ error' = [kind |-> kind, stage |-> stage]

Init ==
    /\ pc = "call"
    /\ old_size \in 1..MaxSide
    /\ \E p \in ImagePairs(old_size) :
           /\ image_pre = p.pre
           /\ image_post = p.post
    /\ new_size = 0
    /\ diff_image = <<>>
    /\ vector_set = <<>>
    /\ mean_vec = <<>>
    /\ EVS = <<>>
    /\ FVS = <<>>
    /\ output = <<>>
    /\ least_index = -1
    /\ change_map = <<>>
    /\ cleanChangeMap = <<>>
    /\ x = <<>>
    /\ error = NoError

\* Lines 71-78: new_size, and both images resized.  PIL refuses a target
\* side below 1 ("height and width must be > 0").
Resize ==
    /\ pc = "call"
    /\ new_size' = NewSize(old_size)
    /\ IF new_size' < 1
       THEN /\ Raise("ValueError", "resize")
            /\ UNCHANGED <<image_pre, image_post>>
       ELSE /\ image_pre' = ResizeImage(image_pre, new_size')
            /\ image_post' = ResizeImage(image_post, new_size')
            /\ pc' = "resized"
            /\ UNCHANGED error
    /\ UNCHANGED <<old_size, diff_image, vector_set, mean_vec, EVS, FVS,
                   output, least_index, change_map, cleanChangeMap, x>>

\* Line 80.
Difference ==
    /\ pc = "resized"
    /\ diff_image' = DiffImage(image_pre, image_post)
    /\ pc' = "diffed"
    /\ UNCHANGED <<old_size, image_pre, image_post, new_size, vector_set,
                   mean_vec, EVS, FVS, output, least_index, change_map,
                   cleanChangeMap, x, error>>

\* Line 82.
BuildVectorSet ==
    /\ pc = "diffed"
    /\ LET r == FindVectorSet(diff_image, new_size)
       IN  /\ vector_set' = r.vector_set
           /\ mean_vec' = r.mean_vec
    /\ pc' = "vectors"
    /\ UNCHANGED <<old_size, image_pre, image_post, new_size, diff_image,
                   EVS, FVS, output, least_index, change_map, cleanChangeMap,
                   x, error>>

\* Lines 84-87.
FitPCA ==
    /\ pc = "vectors"
    /\ EVS' \in PCAComponents(vector_set)
    /\ pc' = "fitted"
    /\ UNCHANGED <<old_size, image_pre, image_post, new_size, diff_image,
                   vector_set, mean_vec, FVS, output, least_index, change_map,
                   cleanChangeMap, x, error>>

\* Line 89.  np.dot raises ValueError when the shapes are not aligned.
BuildFVS ==
    /\ pc = "fitted"
    /\ IF DotDefined(Neighbourhoods(diff_image, new_size), EVS)
       THEN /\ FVS' = FindFVS(EVS, diff_image, mean_vec, new_size)
            /\ pc' = "projected"
            /\ UNCHANGED error
       ELSE /\ Raise("ValueError", "find_FVS")
            /\ UNCHANGED FVS
    /\ UNCHANGED <<old_size, image_pre, image_post, new_size, diff_image,
                   vector_set, mean_vec, EVS, output, least_index, change_map,
                   cleanChangeMap, x>>

\* Lines 91-92.
Clustering ==
    /\ pc = "projected"
    /\ IF FitDefined(FVS)
       THEN \E centres \in [1..Components -> 1..Len(CentreChoices(Len(FVS)))] :
                /\ output' = Predict(Distances(FVS), centres)
                /\ least_index' = LeastIndex(output')
                /\ change_map' = Reshape(output', new_size - 4)
                /\ pc' = "clustered"
                /\ UNCHANGED error
       ELSE /\ Raise("ValueError", "clustering")
            /\ UNCHANGED <<output, least_index, change_map>>
    /\ UNCHANGED <<old_size, image_pre, image_post, new_size, diff_image,
                   vector_set, mean_vec, EVS, FVS, cleanChangeMap, x>>

\* Lines 94-97.
MarkChange ==
    /\ pc = "clustered"
    /\ change_map' = BuildChangeMap(change_map, least_index)
    /\ pc' = "mapped"
    /\ UNCHANGED <<old_size, image_pre, image_post, new_size, diff_image,
                   vector_set, mean_vec, EVS, FVS, output, least_index,
                   cleanChangeMap, x, error>>

\* Lines 98-103.
Clean ==
    /\ pc = "mapped"
    /\ cleanChangeMap' = Erode(change_map)
    /\ pc' = "eroded"
    /\ UNCHANGED <<old_size, image_pre, image_post, new_size, diff_image,
                   vector_set, mean_vec, EVS, FVS, output, least_index,
                   change_map, x, error>>

\* Lines 105-109.  The slice assignment raises ValueError when the shapes
\* cannot be broadcast.
Footprint ==
    /\ pc = "eroded"
    /\ IF AssignDefined(old_size, Len(cleanChangeMap))
       THEN /\ x' = Reconcile(cleanChangeMap, old_size)
            /\ pc' = "returned"
            /\ UNCHANGED error
       ELSE /\ Raise("ValueError", "footprint")
            /\ UNCHANGED x
    /\ UNCHANGED <<old_size, image_pre, image_post, new_size, diff_image,
                   vector_set, mean_vec, EVS, FVS, output, least_index,
                   change_map, cleanChangeMap>>

Next ==
    \/ Resize
    \/ Difference
    \/ BuildVectorSet
    \/ FitPCA
    \/ BuildFVS
    \/ Clustering
    \/ MarkChange
    \/ Clean
    \/ Footprint

Spec == Init /\ [][Next]_vars

----------------------------------------------------------------------------
\* clustering() on its own: any reduced side from 5 up, any feature vectors.

FeatureValues == 0..2

InitClustering ==
    /\ pc = "projected"
    /\ new_size \in BlockSize..MaxNew
    /\ FVS \in [1..((new_size - 4) * (new_size - 4)) -> [1..1 -> FeatureValues]]
    /\ old_size = new_size
    /\ image_pre = <<>>
    /\ image_post = <<>>
    /\ diff_image = <<>>
    /\ vector_set = <<>>
    /\ mean_vec = <<>>
    /\ EVS = <<>>
    /\ output = <<>>
    /\ least_index = -1
    /\ change_map = <<>>
    /\ cleanChangeMap = <<>>
    /\ x = <<>>
    /\ error = NoError

NextClustering == Clustering

SpecClustering == InitClustering /\ [][NextClustering]_vars

----------------------------------------------------------------------------
\* Properties.

\* change_map holds the binary map (lines 94-97 have run).
Marked ==
    \/ pc \in {"mapped", "eroded", "returned"}
    \/ pc = "raised" /\ error.stage = "footprint"

\* cleanChangeMap holds the eroded map (line 103 has run).
Eroded ==
    \/ pc \in {"eroded", "returned"}
    \/ pc = "raised" /\ error.stage = "footprint"

AllZero(a) == \A r \in 1..Len(a) : \A c \in 1..Len(a[r]) : a[r][c] = 0

IsSquare(a, n) == Len(a) = n /\ \A r \in 1..n : Len(a[r]) = n

\* C1: for identical images the difference image is all zeros and every cell
\* of the returned mask is 0.
C1_IdenticalImagesEmptyMask ==
    image_pre = image_post =>
        /\ pc \notin {"call", "resized"} /\ new_size > 0 => AllZero(diff_image)
        /\ pc = "returned" => AllZero(x)

\* C2: on 20x20 images every stage runs to completion without an exception
\* and the mask returned is 20x20.
C2_Side20Completes ==
    old_size = 4 * BlockSize =>
        /\ pc # "raised"
        /\ pc = "returned" => IsSquare(x, old_size)

\* C3: for every side S the footprint step succeeds and writes the cleaned
\* map into rows and columns border+1 .. border+(S'-4) of an S x S canvas of
\* zeros, so that an odd S - (S'-4) leaves its extra line of zeros at the
\* bottom and at the right.
C3_FootprintPlacement ==
    /\ error.stage # "footprint"
    /\ pc = "returned" =>
          LET w == Len(cleanChangeMap)
              b == Border(old_size, w)
          IN  /\ IsSquare(x, old_size)
              /\ \A r \in 1..old_size : \A c \in 1..old_size :
                     x[r][c] = IF r \in (b + 1)..(b + w) /\ c \in (b + 1)..(b + w)
                               THEN cleanChangeMap[r - b][c - b] ELSE 0

\* C4: a returned mask is S x S, every cell is 0 or 255, and every cell
\* outside the centred square that holds the cleaned map is 0.
C4_MaskShapeAndValues ==
    pc = "returned" =>
        LET w == Len(cleanChangeMap)
            b == Border(old_size, w)
        IN  /\ IsSquare(x, old_size)
            /\ \A r \in 1..old_size : \A c \in 1..old_size :
                   /\ x[r][c] \in {0, Foreground}
                   /\ ~(r \in (b + 1)..(b + w) /\ c \in (b + 1)..(b + w))
                          => x[r][c] = 0

\* A mask with a margin has been returned and it marks a change.
C4_Witness ==
    /\ pc = "returned"
    /\ old_size > new_size
    /\ \E r \in 1..old_size : \E c \in 1..old_size : x[r][c] = Foreground
    /\ \E r \in 1..old_size : \E c \in 1..old_size : x[r][c] = 0

\* C5: a reduced side of at most 4 is reported as DegenerateGeometry by a
\* check that runs before any stage; no stage raises and no mask is returned.
C5_DegenerateGeometryTyped ==
    NewSize(old_size) <= 4 =>
        /\ pc \in {"call", "raised"}
        /\ pc = "raised" =>
              /\ error.kind = "DegenerateGeometry"
              /\ error.stage = "geometry check"

\* The flattened blocks of the difference image, in units of 1/Scale.
BlockVectors ==
    LET nb == new_size \div BlockSize
    IN  [q \in 1..(nb * nb) |->
            [m \in 1..VecLen |->
                Scale * Ravel(diff_image, BlockSize * ((q - 1) \div nb),
                              BlockSize * ((q - 1) % nb))[m]]]

\* C6: vector_set has (S'/5)^2 rows of length 25 and, with the mean added
\* back, its rows are the flattened blocks of the difference image, every
\* block as often as it occurs among the blocks.
C6_EveryBlockIsARow ==
    pc = "vectors" =>
        LET nb == new_size \div BlockSize
            rows == [q \in 1..Len(vector_set) |->
                        [m \in 1..VecLen |-> vector_set[q][m] + mean_vec[m]]]
        IN  /\ Len(vector_set) = nb * nb
            /\ \A q \in 1..Len(vector_set) : Len(vector_set[q]) = VecLen
            /\ \A q \in 1..(nb * nb) :
                   Cardinality({p \in 1..Len(rows) : rows[p] = BlockVectors[q]})
                     = Cardinality({p \in 1..(nb * nb) :
                                       BlockVectors[p] = BlockVectors[q]})

\* C7: the change map is 255 exactly where the label is least_index and 0
\* elsewhere, and both values occur in it.
C7_ChangeMapTwoValues ==
    Marked =>
        LET w == Len(change_map)
        IN  /\ \A r \in 1..w : \A c \in 1..w :
                   change_map[r][c] =
                       IF output[(r - 1) * w + c] = least_index
                       THEN Foreground ELSE 0
            /\ {change_map[r][c] : r \in 1..w, c \in 1..w} = {0, Foreground}

\* C8: least_index is a label that occurs, no label that occurs has fewer
\* members, and of the labels with as few members it occurs first.
C8_LeastIndexFirstMinimal ==
    pc = "clustered" =>
        /\ \E n \in 1..Len(output) : output[n] = least_index
        /\ \A n \in 1..Len(output) :
               /\ CountOf(output, least_index) <= CountOf(output, output[n])
               /\ CountOf(output, output[n]) = CountOf(output, least_index)
                      => FirstPos(output, least_index) <= n

\* Two labels tie for the fewest members and the one met first is not the
\* smaller label.
C8_Witness ==
    /\ pc = "clustered"
    /\ \E n \in 1..Len(output) :
           /\ output[n] < least_index
           /\ CountOf(output, output[n]) = CountOf(output, least_index)

\* C9: coordinate k of the projection of pixel n, before the mean is
\* subtracted, is the dot product of the pixel's neighbourhood with row k of
\* the component matrix.
C9_ProjectionOntoComponents ==
    pc = "projected" =>
        LET nbh == Neighbourhoods(diff_image, new_size)
        IN  \A n \in 1..Len(FVS) :
                LET row == nbh[n]
                IN  \A k \in 1..Len(EVS) :
                        FVS[n][k] + mean_vec[k]
                          = Dot(row, EVS[k]) * (Scale \div EvsDen)

InGrid(w, r, c) == r \in 1..w /\ c \in 1..w

\* C10, as stated: the eroded map has the shape of the change map and a
\* cell is 255 only if every cell under the structuring element is inside
\* the grid and 255.
C10_ErosionZeroPadded ==
    Eroded =>
        LET w == Len(change_map)
        IN  /\ IsSquare(cleanChangeMap, w)
            /\ \A r \in 1..w : \A c \in 1..w :
                   cleanChangeMap[r][c] = Foreground =>
                       \A o \in KernelOffsets :
                           /\ InGrid(w, r + o[1], c + o[2])
                           /\ change_map[r + o[1]][c + o[2]] = Foreground

\* C10, amended: the eroded map has the shape of the change map, its cells
\* are 0 or 255, and a cell is 255 exactly if every cell under the
\* structuring element that lies inside the grid is 255.
C10_ErosionIgnoresOutside ==
    Eroded =>
        LET w == Len(change_map)
        IN  /\ IsSquare(cleanChangeMap, w)
            /\ \A r \in 1..w : \A c \in 1..w :
                   /\ cleanChangeMap[r][c] \in {0, Foreground}
                   /\ cleanChangeMap[r][c] = Foreground <=>
                          \A o \in KernelOffsets :
                              InGrid(w, r + o[1], c + o[2]) =>
                                  change_map[r + o[1]][c + o[2]] = Foreground

\* Erosion has kept a cell whose element reaches outside the grid and has
\* cleared a cell of the change region.
C10_Witness ==
    /\ pc = "eroded"
    /\ LET w == Len(change_map)
       IN  /\ \E r \in 1..w : \E c \in 1..w :
                  /\ cleanChangeMap[r][c] = Foreground
                  /\ \E o \in KernelOffsets : ~InGrid(w, r + o[1], c + o[2])
           /\ \E r \in 1..w : \E c \in 1..w :
                  /\ change_map[r][c] = Foreground
                  /\ cleanChangeMap[r][c] = 0

====
